---- MODULE Spec2Model ----
(***************************************************************************)
(* Model of lib/fen_generator.py: the handicap budget computed by          *)
(* generate_odds_fen, its greedy removal scan, the emitted position and    *)
(* the inverse estimator get_expected_elo.                                 *)
(*                                                                         *)
(* Number representation.                                                  *)
(*   - Elo quantities of generate_odds_fen are whole Elo points; a         *)
(*     quotient is rounded down to a whole point.                          *)
(*   - bot_score is carried in half points (a win is 2, a draw is 1), so   *)
(*     the record field bot_score holds the source's 2 * bot_score.        *)
(*   - S, current_sum and the weighted values of the scan are hundredths   *)
(*     of a pawn: 1.0 is 100, 1.2 is 120, 3 * 1.1 is 330, -0.35 is -35.    *)
(*   - a positional multiplier is a number of hundredths (1.2 is 120).     *)
(*   - get_expected_elo accumulates Python floats; its arithmetic is       *)
(*     modelled as IEEE-754 binary64 (round to nearest, ties to even) on   *)
(*     sign/magnitude numbers whose magnitude counts units of 2^-52.       *)
(***************************************************************************)
EXTENDS Integers, FiniteSets, Sequences, TLC

VARIABLES
  pc,                 \* position in __main__ / generate_odds_fen / get_expected_elo
  args,               \* the arguments of generate_odds_fen
  raised,             \* the exception that ended the call, "None" if none
  elo_adjustment,     \* line 63: the clamped Gaussian draw
  time_adjusted_elo,  \* line 59
  S,                  \* line 67
  bot_color,          \* line 70
  removable_pieces,   \* line 91: the shuffled candidates the scan has not reached yet
  removed_squares,    \* line 93
  current_sum,        \* line 94
  fen,                \* line 109
  piece_map,          \* line 117: board.piece_map() of the board parsed from fen
  square,             \* line 117: the square of board.piece_map() visited next, -1 at the end
  total_penalty,      \* line 115
  expected_elo        \* line 138

vars == <<pc, args, raised, elo_adjustment, time_adjusted_elo, S, bot_color,
          removable_pieces, removed_squares, current_sum, fen, piece_map,
          square, total_penalty, expected_elo>>

(***************************************************************************)
(* Module constants of fen_generator.py                                    *)
(***************************************************************************)
PAWN_TO_ELO == 100
STD == 50
BASE_ELO == 3000
MAX_VARIATION == 200
AVERAGE_MOVES == 40
TIME_DOUBLING_ELO == 200
base_initial == 180
base_increment == 2

Max(a, b) == IF a >= b THEN a ELSE b
Min(a, b) == IF a <= b THEN a ELSE b

(***************************************************************************)
(* math.log(x, 2) for a positive rational x = a / b, as a fixed-point      *)
(* number with LogOne units per 1.0: the integer part by repeated          *)
(* doubling, the fraction bit by bit by repeated squaring of the mantissa. *)
(***************************************************************************)
FxOne == 2^14
LogOne == 2^12

RECURSIVE ExpUp(_, _)
ExpUp(a, b) == IF a >= 2 * b THEN 1 + ExpUp(a, 2 * b) ELSE 0

RECURSIVE ExpDown(_, _)
ExpDown(a, b) == IF a < b THEN 1 + ExpDown(2 * a, b) ELSE 0

RECURSIVE FracLog(_, _)
FracLog(m, unit) ==
  IF unit = 0 THEN 0
  ELSE LET sq == (m * m) \div FxOne
       IN IF sq >= 2 * FxOne
            THEN unit + FracLog(sq \div 2, unit \div 2)
            ELSE FracLog(sq, unit \div 2)

Log2Fx(a, b) ==
  IF a >= b
    THEN LET k == ExpUp(a, b)
         IN k * LogOne + FracLog((a * FxOne) \div (b * 2^k), LogOne \div 2)
    ELSE LET k == ExpDown(a, b)
         IN FracLog((a * 2^k * FxOne) \div b, LogOne \div 2) - k * LogOne

(***************************************************************************)
(* generate_odds_fen, lines 47-67: the handicap budget                     *)
(***************************************************************************)
\* variant: the score difference taken with the opposite sign
DeltaOpponentView(bot_score, num_games) ==
  ((num_games - bot_score) * 400) \div (num_games + 10)

Delta(bot_score, num_games) ==
  ((bot_score - num_games) * 400) \div (num_games + 10)

AdjustedElo(opponent_elo, delta) == opponent_elo - delta

\* variant: the total time without its floor at 1
CurrentTimeNoFloor(initial_time, increment, average_moves) ==
  initial_time + increment * average_moves

CurrentTime(initial_time, increment, average_moves) ==
  Max(1, initial_time + increment * average_moves)

TimeAdjustment(current_time, average_moves, time_doubling_elo) ==
  LET base_time == base_initial + base_increment * average_moves
  IN (time_doubling_elo * Log2Fx(current_time, base_time)) \div LogOne

TimeAdjustedElo(a) ==
  AdjustedElo(a.opponent_elo, Delta(a.bot_score, a.num_games))
    + TimeAdjustment(CurrentTime(a.initial_time, a.increment, AVERAGE_MOVES),
                     AVERAGE_MOVES, TIME_DOUBLING_ELO)

\* variant: the Gaussian draw used as drawn
ClampVariationNone(draw, max_variation) == draw

ClampVariation(draw, max_variation) ==
  Max(-max_variation, Min(max_variation, draw))

\* variant: the budget without its floor at 0
BudgetNoFloor(base_elo, effective_elo, pawn_to_elo) ==
  ((base_elo - effective_elo) * 100) \div pawn_to_elo

Budget(base_elo, effective_elo, pawn_to_elo) ==
  Max(0, ((base_elo - effective_elo) * 100) \div pawn_to_elo)

(***************************************************************************)
(* Python float arithmetic of get_expected_elo (IEEE-754 binary64).        *)
(* A magnitude is a natural number in units of 2^-52, written as Limbs     *)
(* digits of base Base, least significant first; digit 5 counts ones.      *)
(* The numbers of get_expected_elo are multiples of 2^-52 below 2^14, so   *)
(* rounding a result to 53 significant bits drops at most 13 bits.         *)
(***************************************************************************)
Base == 2^13
NatZero == <<0, 0, 0, 0, 0, 0>>
NatOne == <<1, 0, 0, 0, 0, 0>>
Limbs == Len(NatZero)

RECURSIVE AddFrom(_, _, _, _)
AddFrom(a, b, i, carry) ==
  IF i > Limbs THEN <<>>
  ELSE LET s == a[i] + b[i] + carry
       IN <<s % Base>> \o AddFrom(a, b, i + 1, s \div Base)

NatAdd(a, b) == AddFrom(a, b, 1, 0)

RECURSIVE SubFrom(_, _, _, _)
SubFrom(a, b, i, borrow) ==
  IF i > Limbs THEN <<>>
  ELSE LET d == a[i] - b[i] - borrow
       IN IF d < 0 THEN <<d + Base>> \o SubFrom(a, b, i + 1, 1)
                   ELSE <<d>> \o SubFrom(a, b, i + 1, 0)

NatSub(a, b) == SubFrom(a, b, 1, 0)

RECURSIVE LessFrom(_, _, _)
LessFrom(a, b, i) ==
  IF i = 0 THEN FALSE
  ELSE IF a[i] # b[i] THEN a[i] < b[i]
  ELSE LessFrom(a, b, i - 1)

NatLess(a, b) == LessFrom(a, b, Limbs)

RECURSIVE MulFrom(_, _, _, _)
MulFrom(a, m, i, carry) ==
  IF i > Limbs THEN <<>>
  ELSE LET p == a[i] * m + carry
       IN <<p % Base>> \o MulFrom(a, m, i + 1, p \div Base)

NatMulSmall(a, m) == MulFrom(a, m, 1, 0)

RECURSIVE DivFrom(_, _, _, _)
DivFrom(a, m, i, rem) ==
  IF i = 0 THEN [q |-> <<>>, r |-> rem]
  ELSE LET cur == rem * Base + a[i]
           rest == DivFrom(a, m, i - 1, cur % m)
       IN [q |-> rest.q \o <<cur \div m>>, r |-> rest.r]

NatDivSmall(a, m) == DivFrom(a, m, Limbs, 0)

RECURSIVE IntBitLen(_)
IntBitLen(n) == IF n = 0 THEN 0 ELSE 1 + IntBitLen(n \div 2)

RECURSIVE BitLenFrom(_, _)
BitLenFrom(a, i) ==
  IF i = 0 THEN 0
  ELSE IF a[i] # 0 THEN 13 * (i - 1) + IntBitLen(a[i])
  ELSE BitLenFrom(a, i - 1)

BitLen(a) == BitLenFrom(a, Limbs)

\* round a quotient q with remainder r of a division by m to nearest, ties to even
RoundQuotient(d, m) ==
  IF 2 * d.r > m \/ (2 * d.r = m /\ d.q[1] % 2 = 1)
    THEN NatAdd(d.q, NatOne)
    ELSE d.q

\* the nearest magnitude with at most 53 significant bits
RoundNat(a) ==
  IF BitLen(a) <= 53 THEN a
  ELSE LET m == 2^(BitLen(a) - 53)
       IN NatMulSmall(RoundQuotient(NatDivSmall(a, m), m), m)

MkFloat(neg, mag) == [neg |-> neg /\ mag # NatZero, mag |-> mag]

\* int -> float conversion of a non-negative int below Base * Base
FloatOfInt(i) ==
  MkFloat(FALSE, [k \in 1..Limbs |-> IF k = 5 THEN i % Base
                                      ELSE IF k = 6 THEN i \div Base ELSE 0])

\* the float literal h / 100 for 1.0 <= h / 100 < 2.0 (1.0, 1.1, 1.2)
FloatLiteral(h) ==
  MkFloat(FALSE, RoundQuotient(NatDivSmall(NatMulSmall(FloatOfInt(1).mag, h), 100), 100))

FloatNeg(x) == MkFloat(~x.neg, x.mag)

FloatAdd(x, y) ==
  IF x.neg = y.neg THEN MkFloat(x.neg, RoundNat(NatAdd(x.mag, y.mag)))
  ELSE IF NatLess(x.mag, y.mag) THEN MkFloat(y.neg, RoundNat(NatSub(y.mag, x.mag)))
  ELSE MkFloat(x.neg, RoundNat(NatSub(x.mag, y.mag)))

FloatSub(x, y) == FloatAdd(x, FloatNeg(y))

\* int * float
IntTimesFloat(i, x) ==
  IF i < 0 THEN MkFloat(~x.neg, RoundNat(NatMulSmall(x.mag, -i)))
           ELSE MkFloat(x.neg, RoundNat(NatMulSmall(x.mag, i)))

\* the whole number nearest to a float
RoundedInt(x) ==
  LET n == x.mag[5] + Base * x.mag[6] + (IF 2 * x.mag[4] >= Base THEN 1 ELSE 0)
  IN IF x.neg THEN -n ELSE n

(***************************************************************************)
(* The chess board (python-chess): squares 0..63, square = 8 * rank + file *)
(***************************************************************************)
\* piece_at(square) of an empty square
NoPiece == [piece_type |-> "None", color |-> "None"]
WHITE == "WHITE"
BLACK == "BLACK"

chess_square(file, rank) == rank * 8 + file
square_file(sq) == sq % 8
square_rank(sq) == sq \div 8

Squares == 0..63

BackRankTypes == <<"ROOK", "KNIGHT", "BISHOP", "QUEEN", "KING", "BISHOP", "KNIGHT", "ROOK">>

\* chess.Board(): the standard initial position
StartBoard ==
  [sq \in Squares |->
     IF square_rank(sq) = 0 THEN [piece_type |-> BackRankTypes[square_file(sq) + 1], color |-> WHITE]
     ELSE IF square_rank(sq) = 1 THEN [piece_type |-> "PAWN", color |-> WHITE]
     ELSE IF square_rank(sq) = 6 THEN [piece_type |-> "PAWN", color |-> BLACK]
     ELSE IF square_rank(sq) = 7 THEN [piece_type |-> BackRankTypes[square_file(sq) + 1], color |-> BLACK]
     ELSE NoPiece]

\* board.remove_piece_at for every square of removed_squares
RemovePieces(b, squares) ==
  [sq \in Squares |-> IF sq \in squares THEN NoPiece ELSE b[sq]]

(***************************************************************************)
(* board.fen() and chess.Board(fen)                                        *)
(***************************************************************************)
Digits == <<"1", "2", "3", "4", "5", "6", "7", "8">>

WhiteSymbols == [PAWN |-> "P", KNIGHT |-> "N", BISHOP |-> "B", ROOK |-> "R", QUEEN |-> "Q", KING |-> "K"]
BlackSymbols == [PAWN |-> "p", KNIGHT |-> "n", BISHOP |-> "b", ROOK |-> "r", QUEEN |-> "q", KING |-> "k"]

Symbol(piece) ==
  IF piece.color = WHITE THEN WhiteSymbols[piece.piece_type] ELSE BlackSymbols[piece.piece_type]

PieceTypes == DOMAIN WhiteSymbols

PieceOfSymbol(sym) ==
  IF \E t \in PieceTypes : WhiteSymbols[t] = sym
    THEN [piece_type |-> CHOOSE t \in PieceTypes : WhiteSymbols[t] = sym, color |-> WHITE]
    ELSE [piece_type |-> CHOOSE t \in PieceTypes : BlackSymbols[t] = sym, color |-> BLACK]

EmptyRun(n) == IF n > 0 THEN <<Digits[n]>> ELSE <<>>

RECURSIVE RankFen(_, _, _, _)
RankFen(b, rank, file, empty) ==
  IF file > 7 THEN EmptyRun(empty)
  ELSE IF b[chess_square(file, rank)] = NoPiece THEN RankFen(b, rank, file + 1, empty + 1)
  ELSE EmptyRun(empty) \o <<Symbol(b[chess_square(file, rank)])>> \o RankFen(b, rank, file + 1, 0)

RECURSIVE BoardFen(_, _)
BoardFen(b, rank) ==
  RankFen(b, rank, 0, 0) \o (IF rank > 0 THEN <<"/">> \o BoardFen(b, rank - 1) ELSE <<>>)

HasPiece(b, sq, piece_type, color) ==
  b[sq] # NoPiece /\ b[sq].piece_type = piece_type /\ b[sq].color = color

\* castling field: a right is reported only while king and rook stand on their squares
CastlingFen(b) ==
  LET rights ==
        (IF HasPiece(b, 4, "KING", WHITE) /\ HasPiece(b, 7, "ROOK", WHITE) THEN <<"K">> ELSE <<>>)
        \o (IF HasPiece(b, 4, "KING", WHITE) /\ HasPiece(b, 0, "ROOK", WHITE) THEN <<"Q">> ELSE <<>>)
        \o (IF HasPiece(b, 60, "KING", BLACK) /\ HasPiece(b, 63, "ROOK", BLACK) THEN <<"k">> ELSE <<>>)
        \o (IF HasPiece(b, 60, "KING", BLACK) /\ HasPiece(b, 56, "ROOK", BLACK) THEN <<"q">> ELSE <<>>)
  IN IF rights = <<>> THEN <<"-">> ELSE rights

Fen(b) ==
  [placement |-> BoardFen(b, 7), turn |-> "w", castling |-> CastlingFen(b),
   ep |-> "-", halfmove |-> 0, fullmove |-> 1]

DigitValue(tok) == CHOOSE n \in 1..8 : Digits[n] = tok

RECURSIVE ParsePlacement(_, _, _, _, _)
ParsePlacement(tokens, i, rank, file, b) ==
  IF i > Len(tokens) THEN b
  ELSE IF tokens[i] = "/" THEN ParsePlacement(tokens, i + 1, rank - 1, 0, b)
  ELSE IF \E n \in 1..8 : Digits[n] = tokens[i]
    THEN ParsePlacement(tokens, i + 1, rank, file + DigitValue(tokens[i]), b)
  ELSE ParsePlacement(tokens, i + 1, rank, file + 1,
                      [b EXCEPT ![chess_square(file, rank)] = PieceOfSymbol(tokens[i])])

ParseFen(f) == ParsePlacement(f.placement, 1, 7, 0, [sq \in Squares |-> NoPiece])

(***************************************************************************)
(* piece_values and get_positional_multiplier                              *)
(***************************************************************************)
piece_values == [QUEEN |-> 9, ROOK |-> 5, BISHOP |-> 3, KNIGHT |-> 3, PAWN |-> 1]

get_positional_multiplier(sq, piece_type) ==
  LET rank == square_rank(sq)
      file == IF rank >= 4 THEN 7 - square_file(sq) ELSE square_file(sq)
  IN IF piece_type = "PAWN" /\ file \in {3, 4, 5} THEN 120
     ELSE IF piece_type = "KNIGHT" /\ file = 6 THEN 110
     ELSE IF piece_type = "ROOK" /\ file = 7 THEN 120
     ELSE 100

(***************************************************************************)
(* get_expected_elo                                                        *)
(***************************************************************************)
PenaltySign(piece_color, color) == IF piece_color # color THEN 1 ELSE -1

\* line 123: piece_values[piece_type] * multiplier * (1 if piece.color != bot_color else -1)
PenaltyTerm(piece, sq, color) ==
  IntTimesFloat(PenaltySign(piece.color, color),
                IntTimesFloat(piece_values[piece.piece_type],
                              FloatLiteral(get_positional_multiplier(sq, piece.piece_type))))

\* board.piece_map() holds the occupied squares from 63 down to 0:
\* the first occupied square at or below sq, -1 if there is none
RECURSIVE NextOccupied(_, _)
NextOccupied(b, sq) ==
  IF sq < 0 THEN -1
  ELSE IF b[sq] # NoPiece THEN sq
  ELSE NextOccupied(b, sq - 1)

\* line 125
ExpectedElo(base_elo, pawn_to_elo, penalty) ==
  FloatSub(FloatOfInt(base_elo), IntTimesFloat(pawn_to_elo, penalty))

(***************************************************************************)
(* generate_odds_fen, lines 70-101: candidates and the greedy scan         *)
(***************************************************************************)
\* variant: the back rank of the other side
BackRankOtherSide(color) == IF color = WHITE THEN 7 ELSE 0

BackRank(color) == IF color = WHITE THEN 0 ELSE 7
PawnRank(color) == IF color = WHITE THEN 1 ELSE 6

BackRankCandidates ==
  <<[file |-> 0, piece_type |-> "ROOK"], [file |-> 1, piece_type |-> "KNIGHT"],
    [file |-> 2, piece_type |-> "BISHOP"], [file |-> 3, piece_type |-> "QUEEN"],
    [file |-> 5, piece_type |-> "BISHOP"], [file |-> 6, piece_type |-> "KNIGHT"],
    [file |-> 7, piece_type |-> "ROOK"]>>

\* variant: the base value without the positional multiplier
WeightedValueFlat(sq, piece_type) == piece_values[piece_type] * 100

\* piece_values[piece_type] * multiplier, in hundredths of a pawn
WeightedValue(sq, piece_type) ==
  piece_values[piece_type] * get_positional_multiplier(sq, piece_type)

\* lines 75-88: the (square, value) pairs
RemovablePieces(color) ==
  {[square |-> chess_square(BackRankCandidates[i].file, BackRank(color)),
    value |-> WeightedValue(chess_square(BackRankCandidates[i].file, BackRank(color)),
                            BackRankCandidates[i].piece_type)] : i \in 1..Len(BackRankCandidates)}
  \cup
  {[square |-> chess_square(file, PawnRank(color)),
    value |-> WeightedValue(chess_square(file, PawnRank(color)), "PAWN")] : file \in 0..7}

\* line 94: current_sum = -0.35
FILL_BIAS == 35

\* variant: the bias with the opposite sign
InitialSumAbove == FILL_BIAS

InitialSum == -FILL_BIAS

\* variant: the sum tested before the candidate is added
FitsBeforeAdding(sum, value, budget) == sum < budget

\* line 97
Fits(sum, value, budget) == sum + value < budget

\* variant: the scan stops once less than the dearest pawn is left of the budget
StopScanNearBudget(sum, budget) == sum + 120 >= budget

\* line 100
StopScan(sum, budget) == sum >= budget

(***************************************************************************)
(* Inputs                                                                  *)
(***************************************************************************)
Args(opponent_elo, num_games, bot_score, initial_time, increment, pawn_to_elo, max_variation) ==
  [opponent_elo |-> opponent_elo, num_games |-> num_games, bot_score |-> bot_score,
   initial_time |-> initial_time, increment |-> increment,
   pawn_to_elo |-> pawn_to_elo, max_variation |-> max_variation]

\* the call of __main__ (line 136): generate_odds_fen(2000, 10, 8, 60, 1)
ExampleArgs == Args(2000, 10, 16, 60, 1, PAWN_TO_ELO, MAX_VARIATION)

\* a valid GameContext: num_games >= 0, 0 <= bot_score <= num_games, non-negative times
ValidArgs(a) ==
  /\ a.num_games >= 0
  /\ 0 <= a.bot_score /\ a.bot_score <= 2 * a.num_games
  /\ a.initial_time >= 0 /\ a.increment >= 0

\* the arguments of the runs of generate_odds_fen and get_expected_elo:
\* budgets of 0, of a few pawns, of about 30 pawns and above the 40.9 pawns
\* of all candidates, and the inputs a valid GameContext excludes
MainArgs ==
  { Args(3200, 0, 0, 180, 2, PAWN_TO_ELO, MAX_VARIATION),
    Args(2700, 0, 0, 180, 2, 200, MAX_VARIATION),
    Args(1400, 0, 0, 180, 2, 50, MAX_VARIATION),
    Args(400, 4, 4, 180, 2, 50, MAX_VARIATION),
    Args(3300, -1, 0, 180, 2, PAWN_TO_ELO, MAX_VARIATION),
    Args(3400, 1, 5, 180, 2, PAWN_TO_ELO, MAX_VARIATION),
    Args(5000, 0, 0, -60, 0, PAWN_TO_ELO, MAX_VARIATION),
    Args(5000, 0, 0, 30, -1, PAWN_TO_ELO, MAX_VARIATION),
    Args(2000, -10, 0, 180, 2, PAWN_TO_ELO, MAX_VARIATION) }

\* values random.gauss(0, variation_std) may return, before the clamp of line 63
GaussDraws == {-5 * STD, 0, 5 * STD}

NoFen == [placement |-> <<>>, turn |-> "", castling |-> <<>>, ep |-> "", halfmove |-> 0, fullmove |-> 0]

InitLocals ==
  /\ pc = "start"
  /\ raised = "None"
  /\ elo_adjustment = 0
  /\ time_adjusted_elo = 0
  /\ S = 0
  /\ bot_color = "None"
  /\ removable_pieces = {}
  /\ removed_squares = {}
  /\ current_sum = 0
  /\ fen = NoFen
  /\ piece_map = [sq \in {} |-> NoPiece]
  /\ square = -1
  /\ total_penalty = FloatOfInt(0)
  /\ expected_elo = FloatOfInt(0)

Init == args \in MainArgs /\ InitLocals

(***************************************************************************)
(* generate_odds_fen                                                       *)
(***************************************************************************)
\* lines 47-67: delta .. S.  400.0 / (num_games + 10) raises ZeroDivisionError
\* for a zero divisor and math.log raises ValueError for a non-positive argument.
ComputeBudget ==
  /\ pc = "start"
  /\ IF args.num_games + 10 = 0
       THEN /\ raised' = "ZeroDivisionError"
            /\ pc' = "raised"
            /\ UNCHANGED <<elo_adjustment, time_adjusted_elo, S>>
       ELSE IF CurrentTime(args.initial_time, args.increment, AVERAGE_MOVES) <= 0
       THEN /\ raised' = "ValueError"
            /\ pc' = "raised"
            /\ UNCHANGED <<elo_adjustment, time_adjusted_elo, S>>
       ELSE /\ \E draw \in GaussDraws :
                 elo_adjustment' = ClampVariation(draw, args.max_variation)
            /\ time_adjusted_elo' = TimeAdjustedElo(args)
            /\ S' = Budget(BASE_ELO, time_adjusted_elo' + elo_adjustment', args.pawn_to_elo)
            /\ pc' = "budget"
            /\ UNCHANGED raised
  /\ UNCHANGED <<args, bot_color, removable_pieces, removed_squares, current_sum,
                 fen, piece_map, square, total_penalty, expected_elo>>

\* lines 70-94: colour, candidates, shuffle, empty removal list, initial sum.
\* random.shuffle draws an order; removable_pieces holds the candidates the
\* scan has not reached, and the draw of each position is made when the scan
\* reaches it.
ChooseColor ==
  /\ pc = "budget"
  /\ \E color \in {WHITE, BLACK} :
       /\ bot_color' = color
       /\ removable_pieces' = RemovablePieces(color)
  /\ removed_squares' = {}
  /\ current_sum' = InitialSum
  /\ pc' = "scan"
  /\ UNCHANGED <<args, raised, elo_adjustment, time_adjusted_elo, S,
                 fen, piece_map, square, total_penalty, expected_elo>>

\* lines 96-101: one iteration of the scan
ScanStep ==
  /\ pc = "scan"
  /\ \E candidate \in removable_pieces :
       /\ removable_pieces' = removable_pieces \ {candidate}
       /\ IF Fits(current_sum, candidate.value, S)
            THEN /\ removed_squares' = removed_squares \cup {candidate.square}
                 /\ current_sum' = current_sum + candidate.value
            ELSE UNCHANGED <<removed_squares, current_sum>>
       /\ pc' = IF StopScan(current_sum', S) \/ removable_pieces' = {} THEN "apply" ELSE "scan"
  /\ UNCHANGED <<args, raised, elo_adjustment, time_adjusted_elo, S, bot_color,
                 fen, piece_map, square, total_penalty, expected_elo>>

\* lines 104-109: the board and its FEN
ApplyRemovals ==
  /\ pc = "apply"
  /\ fen' = Fen(RemovePieces(StartBoard, removed_squares))
  /\ pc' = "returned"
  /\ UNCHANGED <<args, raised, elo_adjustment, time_adjusted_elo, S, bot_color,
                 removable_pieces, removed_squares, current_sum, piece_map, square,
                 total_penalty, expected_elo>>

(***************************************************************************)
(* get_expected_elo(fen, color, pawn_to_elo, base_elo), called on the      *)
(* position generate_odds_fen returned (line 138)                          *)
(***************************************************************************)
\* lines 114-115
EstimateStart ==
  /\ pc = "returned"
  /\ piece_map' = ParseFen(fen)
  /\ total_penalty' = FloatOfInt(0)
  /\ square' = NextOccupied(piece_map', 63)
  /\ pc' = "estimate"
  /\ UNCHANGED <<args, raised, elo_adjustment, time_adjusted_elo, S, bot_color,
                 removable_pieces, removed_squares, current_sum, fen, expected_elo>>

\* lines 117-123: one iteration over board.piece_map()
EstimateStep ==
  /\ pc = "estimate"
  /\ square >= 0
  /\ LET piece == piece_map[square]
     IN total_penalty' =
          IF piece = NoPiece \/ piece.piece_type = "KING"
            THEN total_penalty
            ELSE FloatAdd(total_penalty, PenaltyTerm(piece, square, bot_color))
  /\ square' = NextOccupied(piece_map, square - 1)
  /\ UNCHANGED <<pc, args, raised, elo_adjustment, time_adjusted_elo, S, bot_color,
                 removable_pieces, removed_squares, current_sum, fen, piece_map, expected_elo>>

\* line 125
EstimateReturn ==
  /\ pc = "estimate"
  /\ square < 0
  /\ expected_elo' = ExpectedElo(BASE_ELO, args.pawn_to_elo, total_penalty)
  /\ pc' = "done"
  /\ UNCHANGED <<args, raised, elo_adjustment, time_adjusted_elo, S, bot_color,
                 removable_pieces, removed_squares, current_sum, fen, piece_map, square,
                 total_penalty>>

Next ==
  \/ ComputeBudget
  \/ ChooseColor
  \/ ScanStep
  \/ ApplyRemovals
  \/ EstimateStart
  \/ EstimateStep
  \/ EstimateReturn

Spec == Init /\ [][Next]_vars

\* __main__: the one call of line 136
InitExample == args = ExampleArgs /\ InitLocals

SpecExample == InitExample /\ [][Next]_vars

(***************************************************************************)
(* The budget as a function of its arguments: the arguments range over a   *)
(* grid, the budget is computed, and it is computed again for a higher     *)
(* bot_score with every other argument and the Gaussian draw kept.         *)
(***************************************************************************)
MaxGames == 3

BudgetArgs ==
  { Args(elo, games, score, initial_time, increment, pawn_to_elo, MAX_VARIATION) :
      elo \in {1500, 2900, 3100},
      games \in {-10} \cup (-1..MaxGames),
      score \in -1..(2 * MaxGames + 1),
      initial_time \in {-60, 0, 60, 180, 600},
      increment \in {-1, 0, 2},
      pawn_to_elo \in {50, PAWN_TO_ELO, 200} }

InitBudget == args \in BudgetArgs /\ InitLocals

Rescore ==
  /\ pc \in {"budget", "rescored"}
  /\ \E score \in -1..(2 * MaxGames + 1) :
       /\ score > args.bot_score
       /\ args' = [args EXCEPT !.bot_score = score]
  /\ time_adjusted_elo' = TimeAdjustedElo(args')
  /\ S' = Budget(BASE_ELO, time_adjusted_elo' + elo_adjustment, args.pawn_to_elo)
  /\ pc' = "rescored"
  /\ UNCHANGED <<raised, elo_adjustment, bot_color, removable_pieces, removed_squares,
                 current_sum, fen, piece_map, square, total_penalty, expected_elo>>

NextBudget ==
  \/ ComputeBudget
  \/ Rescore

SpecBudget == InitBudget /\ [][NextBudget]_vars

(***************************************************************************)
(* Properties                                                              *)
(***************************************************************************)
BudgetComputed == pc \notin {"start", "raised"}

\* C1: for every valid input and every clamped Gaussian draw, the budget S
\* computed by generate_odds_fen is at least 0.
C1_BudgetNonNegative ==
  (BudgetComputed /\ ValidArgs(args)) => S >= 0

\* a valid input whose effective Elo exceeds base_elo: the floor of line 67 acts
C1_Witness ==
  /\ pc = "budget"
  /\ ValidArgs(args)
  /\ time_adjusted_elo + elo_adjustment > BASE_ELO
  /\ S = 0

\* C3 as stated: computing the budget again for a higher bot_score, all else
\* and the Gaussian draw fixed, yields a strictly smaller S.
C3_HigherScoreLowersBudget ==
  [][pc' = "rescored" => S' < S]_vars

\* C3 amended: for a higher bot_score (num_games > -10, all else and the draw
\* fixed) S is never smaller, and it is strictly larger unless it is 0.
C3_HigherScoreRaisesBudget ==
  [][pc' = "rescored" => (S' >= S /\ (S' > 0 => S' > S))]_vars

\* the budget has been computed again for a higher score and is positive
C3_Witness ==
  /\ pc = "rescored"
  /\ ValidArgs(args)
  /\ S > 0

Returned == pc \in {"returned", "estimate", "done"}
ScanEnded == pc \in {"apply", "returned", "estimate", "done"}
ScanStarted == pc = "scan" \/ ScanEnded

RECURSIVE SumValues(_)
SumValues(candidates) ==
  IF candidates = {} THEN 0
  ELSE LET c == CHOOSE x \in candidates : TRUE
       IN c.value + SumValues(candidates \ {c})

Removed == {c \in RemovablePieces(bot_color) : c.square \in removed_squares}
Skipped == {c \in RemovablePieces(bot_color) : c.square \notin removed_squares}

Absent(b) == {sq \in Squares : StartBoard[sq] # NoPiece /\ b[sq] = NoPiece}

KingSquare(color) == IF color = WHITE THEN 4 ELSE 60

\* C2: on every returned board the handicapped side's king stands on its
\* initial square, at most 15 pieces are absent, every absent piece is a
\* non-king piece of the handicapped side, and every other square is as in
\* the initial position (so the other side's 16 pieces are unchanged).
C2_OnlyOwnNonKingPiecesAbsent ==
  Returned =>
    LET b == ParseFen(fen)
    IN /\ b[KingSquare(bot_color)] = [piece_type |-> "KING", color |-> bot_color]
       /\ Cardinality(Absent(b)) <= 15
       /\ \A sq \in Absent(b) :
            /\ StartBoard[sq].color = bot_color
            /\ StartBoard[sq].piece_type # "KING"
            /\ square_rank(sq) \in (IF bot_color = WHITE THEN {0, 1} ELSE {6, 7})
       /\ \A sq \in Squares \ Absent(b) : b[sq] = StartBoard[sq]

\* a returned board from which all 15 candidates are absent
C2_Witness ==
  /\ pc = "returned"
  /\ Cardinality(Absent(ParseFen(fen))) = 15

\* C4 as stated: get_expected_elo of the generated position differs from the
\* forward time_adjusted_elo by at most max_variation + 0.35 * pawn_to_elo.
C4_EstimateWithinSlack ==
  pc = "done" =>
    LET diff == RoundedInt(expected_elo) - time_adjusted_elo
    IN /\ 100 * diff <= 100 * args.max_variation + 35 * args.pawn_to_elo
       /\ 100 * diff >= -(100 * args.max_variation + 35 * args.pawn_to_elo)

\* C4 amended: when the budget is not floored (effective Elo <= base_elo),
\* get_expected_elo of the generated position is above
\* time_adjusted_elo - (max_variation + 0.35 * pawn_to_elo); there is no
\* bound from above.
C4_EstimateAboveForwardLessSlack ==
  (pc = "done" /\ time_adjusted_elo + elo_adjustment <= BASE_ELO) =>
    100 * (RoundedInt(expected_elo) - time_adjusted_elo)
      > -(100 * args.max_variation + 35 * args.pawn_to_elo)

\* the estimate lies below the forward Elo by more than max_variation
C4_Witness ==
  /\ pc = "done"
  /\ time_adjusted_elo + elo_adjustment <= BASE_ELO
  /\ removed_squares # {}
  /\ RoundedInt(expected_elo) < time_adjusted_elo - args.max_variation

C6_StartPositionGivesBaseElo ==
  (pc = "done" /\ fen = Fen(StartBoard)) => expected_elo = FloatOfInt(BASE_ELO)

\* C7: when S is 0 no piece is removed, for either colour and every shuffle
\* order, and the returned board is the initial position.
C7_ZeroBudgetRemovesNothing ==
  (ScanStarted /\ S = 0) =>
    /\ removed_squares = {}
    /\ Returned => fen = Fen(StartBoard)

\* the scan has run with S = 0 and the board has been returned
C7_Witness ==
  /\ pc = "returned"
  /\ S = 0
  /\ removable_pieces = {}
  /\ bot_color = BLACK

\* C8 as stated: in the example call the scan marks at least 8 of the 15
\* candidates, for every shuffle order and every clamped draw.
C8_ExampleRemovesMost ==
  (args = ExampleArgs /\ ScanEnded) => Cardinality(removed_squares) >= 8

\* C8 amended: in the example call S lies between 11.96 and 15.96, the
\* candidates are worth 40.9 in total (not about 15), and the scan marks
\* between 2 and 10 of the 15 candidates.
C8_ExampleRemovesTwoToTen ==
  (args = ExampleArgs /\ BudgetComputed) =>
    /\ S \in 1196..1596
    /\ ScanStarted => SumValues(RemovablePieces(bot_color)) = 4090
    /\ ScanEnded => Cardinality(removed_squares) \in 2..10

\* the example call with no noise has S = 13.96 and ends with 2 pieces marked
C8_Witness ==
  /\ args = ExampleArgs
  /\ pc = "apply"
  /\ S = 1396
  /\ Cardinality(removed_squares) = 2

\* C9: from the start of the scan on current_sum < S, so the early stop of
\* line 100 is never taken and the scan ends only when all 15 candidates
\* have been examined; the removed pieces are worth less than S + 0.35.
C9_SumStaysBelowBudget ==
  ScanStarted =>
    /\ current_sum < S
    /\ ScanEnded => removable_pieces = {}
    /\ SumValues(Removed) < S + FILL_BIAS

\* the scan has ended having removed some candidates and skipped others
C9_Witness ==
  /\ pc = "apply"
  /\ removed_squares # {}
  /\ Cardinality(removed_squares) < 15
  /\ S - current_sum <= FILL_BIAS

\* C10: when the scan has ended no skipped candidate fits: for every
\* candidate not removed, current_sum + value >= S.
C10_NoSkippedCandidateFits ==
  ScanEnded => \A c \in Skipped : ~(current_sum + c.value < S)

\* the scan has ended, and a candidate that fitted the whole budget at the
\* start was skipped
C10_Witness ==
  /\ pc = "apply"
  /\ removed_squares # {}
  /\ \E c \in Skipped : c.value - FILL_BIAS < S

====
